---- MODULE Spec2Model ----
(***************************************************************************)
(* A model of the spectrum-ingestion engine of spectraviewer:             *)
(* spectra_plotter.py (path_mapper, file_extension, the three plotters,   *)
(* extract_meta_file, plot_spectra) and the two handlers of app.py that   *)
(* call plot_spectra.                                                      *)
(*                                                                         *)
(* Text is modelled as a sequence of one-character strings, so that the   *)
(* string operations of the code (startswith, `in`, split, strip,         *)
(* basename, join, abspath) are computed rather than assumed.             *)
(***************************************************************************)
EXTENDS Integers, Sequences, FiniteSets, TLC

VARIABLES
    \* ---- one call of a handler / of plot_spectra ----
    pc,             \* position of the call
    caller,         \* "api" (plot_spectra called directly), "view", "png"
    file_list,      \* argument file_list: sequence of raw paths
    location,       \* argument location
    idx,            \* index of the loop in progress (into file_list, then spectra_files)
    row,            \* CsvPlotter.plot: number of rows of the current file consumed
    meta_wave,      \* local meta_wave
    spectra_files,  \* local spectra_files: sequence of (file name, absolute path)
    curves,         \* axes: the curves plotted so far, in order
    spectra_count,  \* axes.spectra_count as <<n>>, or NoAttr when the attribute was never set
    start_count,    \* axes.spectra_count when plot_spectra was entered
    decoded,        \* the candidates handed to a plotter so far (file names, in order)
    error,          \* kind of the exception that ended plot_spectra, or None
    http,           \* status the handler answers with, or None
    \* ---- application of one pure function of the module ----
    fn_in,          \* the input drawn
    fn_out          \* its result, or None before the function was applied

batchVars == <<pc, caller, file_list, location, idx, row, meta_wave, spectra_files,
               curves, spectra_count, start_count, decoded, error, http>>
fnVars == <<fn_in, fn_out>>
vars == <<pc, caller, file_list, location, idx, row, meta_wave, spectra_files,
          curves, spectra_count, start_count, decoded, error, http, fn_in, fn_out>>

None == "None"
NoAttr == <<>>
NotApplied == [applied |-> FALSE]

\* ------------------------------------------------------------------------
\* Bounds
\* ------------------------------------------------------------------------
MaxPathLen == 5
MaxFiles == 3
MaxBlocks == 3
MaxFluxLen == 3

\* ------------------------------------------------------------------------
\* Text
\* ------------------------------------------------------------------------
RECURSIVE SeqsUpTo(_, _)
SeqsUpTo(S, n) ==
    IF n = 0 THEN {<<>>}
    ELSE LET shorter == SeqsUpTo(S, n - 1)
         IN  shorter \cup {Append(s, c) : s \in {t \in shorter : Len(t) = n - 1}, c \in S}

StartsWith(s, p) == Len(s) >= Len(p) /\ SubSeq(s, 1, Len(p)) = p
EndsWith(s, p) == Len(s) >= Len(p) /\ SubSeq(s, Len(s) - Len(p) + 1, Len(s)) = p
Contains(s, p) == \E i \in 1..(Len(s) - Len(p) + 1) : SubSeq(s, i, i + Len(p) - 1) = p

\* str.split(sep) for a one-character separator: always at least one piece
RECURSIVE Split(_, _)
Split(s, sep) ==
    IF \A i \in 1..Len(s) : s[i] # sep THEN <<s>>
    ELSE LET k == CHOOSE i \in 1..Len(s) : s[i] = sep /\ \A j \in 1..(i - 1) : s[j] # sep
         IN  <<SubSeq(s, 1, k - 1)>> \o Split(SubSeq(s, k + 1, Len(s)), sep)

\* sep.join(parts)
RECURSIVE Join(_, _)
Join(parts, sep) ==
    IF Len(parts) = 0 THEN <<>>
    ELSE IF Len(parts) = 1 THEN parts[1]
    ELSE parts[1] \o <<sep>> \o Join(Tail(parts), sep)

Whitespace == {" "}

\* str.strip()
RECURSIVE Strip(_)
Strip(s) ==
    IF Len(s) > 0 /\ s[1] \in Whitespace THEN Strip(Tail(s))
    ELSE IF Len(s) > 0 /\ s[Len(s)] \in Whitespace THEN Strip(SubSeq(s, 1, Len(s) - 1))
    ELSE s

\* ------------------------------------------------------------------------
\* os.path (posixpath), as path_mapper uses it
\* ------------------------------------------------------------------------
\* os.path.basename
basename(p) ==
    LET slashes == {i \in 1..Len(p) : p[i] = "/"}
        last == IF slashes = {} THEN 0 ELSE CHOOSE i \in slashes : \A j \in slashes : j <= i
    IN  SubSeq(p, last + 1, Len(p))

\* os.path.join(a, b)
pathjoin(a, b) ==
    IF StartsWith(b, <<"/">>) THEN b
    ELSE IF a = <<>> \/ EndsWith(a, <<"/">>) THEN a \o b
    ELSE a \o <<"/">> \o b

\* the loop of os.path.normpath over the components
RECURSIVE NormComps(_, _, _)
NormComps(comps, acc, rooted) ==
    IF comps = <<>> THEN acc
    ELSE LET c == Head(comps)
             rest == Tail(comps)
         IN  IF c = <<>> \/ c = <<".">> THEN NormComps(rest, acc, rooted)
             ELSE IF c # <<".", ".">>
                     \/ (~rooted /\ acc = <<>>)
                     \/ (acc # <<>> /\ acc[Len(acc)] = <<".", ".">>)
                  THEN NormComps(rest, Append(acc, c), rooted)
             ELSE IF acc # <<>> THEN NormComps(rest, SubSeq(acc, 1, Len(acc) - 1), rooted)
             ELSE NormComps(rest, acc, rooted)

\* os.path.normpath
normpath(p) ==
    IF p = <<>> THEN <<".">>
    ELSE LET rooted == StartsWith(p, <<"/">>)
             lead == IF ~rooted THEN <<>>
                     ELSE IF StartsWith(p, <<"/", "/">>) /\ ~StartsWith(p, <<"/", "/", "/">>)
                          THEN <<"/", "/">>
                     ELSE <<"/">>
             out == lead \o Join(NormComps(Split(p, "/"), <<>>, rooted), "/")
         IN  IF out = <<>> THEN <<".">> ELSE out

\* the working directory of the server process (only used for a relative path)
Cwd == <<"/", "w">>

\* os.path.abspath
abspath(p) == normpath(IF StartsWith(p, <<"/">>) THEN p ELSE pathjoin(Cwd, p))

\* ------------------------------------------------------------------------
\* Configuration: options.filesystem_path, options.jobs_path
\* ------------------------------------------------------------------------
filesystem_path == <<"/", "f">>
jobs_path == <<"/", "j">>

Locations == {"filesystem", "jobs"}

\* plot_spectra, the choice of location_prefix
location_prefix(loc) ==
    IF loc = "filesystem" THEN filesystem_path
    ELSE IF loc = "jobs" THEN jobs_path
    ELSE <<>>

\* ------------------------------------------------------------------------
\* path_mapper
\* ------------------------------------------------------------------------
\* while path.startswith('/'): path = path[1:]
RECURSIVE StripLeadingSlashes(_)
StripLeadingSlashes(path) ==
    IF StartsWith(path, <<"/">>) THEN StripLeadingSlashes(Tail(path)) ELSE path

\* a faulty variant: the leading separators are kept
path_mapper_keep_slashes(prefix, raw) ==
    IF Contains(raw, <<".", ".">>) THEN [ok |-> FALSE, err |-> "InvalidPath"]
    ELSE [ok |-> TRUE, name |-> basename(raw), path |-> abspath(pathjoin(prefix, raw))]

\* path_mapper(location_prefix)(path): (file name, absolute path) or ValueError
path_mapper(prefix, raw) ==
    LET path == StripLeadingSlashes(raw)
    IN  IF Contains(path, <<".", ".">>) THEN [ok |-> FALSE, err |-> "InvalidPath"]
        ELSE [ok |-> TRUE, name |-> basename(path), path |-> abspath(pathjoin(prefix, path))]

\* resolve(location, raw): the location check of plot_spectra, then path_mapper
resolve(loc, raw) ==
    IF loc \notin Locations THEN [ok |-> FALSE, err |-> "UnknownLocation"]
    ELSE path_mapper(location_prefix(loc), raw)

\* ------------------------------------------------------------------------
\* file_extension and PLOTTER_MAPPING
\* ------------------------------------------------------------------------
\* the lower-case form of a letter, and of a text
Lower(c) ==
    CASE c = "F" -> "f" [] c = "I" -> "i" [] c = "T" -> "t" [] c = "S" -> "s"
      [] c = "C" -> "c" [] c = "V" -> "v" [] c = "O" -> "o" [] c = "X" -> "x"
      [] c = "M" -> "m" [] c = "L" -> "l" [] OTHER -> c

LowerSeq(s) == [i \in 1..Len(s) |-> Lower(s[i])]

\* a faulty variant: the extension is folded to lower case
file_extension_lower(filename) ==
    IF filename = <<>> THEN [raised |-> TRUE, none |-> FALSE, ext |-> <<>>]
    ELSE LET arr == Split(filename, ".")
             ext == Strip(arr[Len(arr)])
         IN  IF Len(arr) <= 1 \/ Len(ext) = 0
             THEN [raised |-> FALSE, none |-> TRUE, ext |-> <<>>]
             ELSE [raised |-> FALSE, none |-> FALSE, ext |-> LowerSeq(ext)]

\* file_extension(filename): raises ValueError, returns None, or returns the text
\* after the last '.', stripped of surrounding white space
file_extension(filename) ==
    IF filename = <<>> THEN [raised |-> TRUE, none |-> FALSE, ext |-> <<>>]
    ELSE LET arr == Split(filename, ".")
             ext == Strip(arr[Len(arr)])
         IN  IF Len(arr) <= 1 \/ Len(ext) = 0
             THEN [raised |-> FALSE, none |-> TRUE, ext |-> <<>>]
             ELSE [raised |-> FALSE, none |-> FALSE, ext |-> ext]

x_fits == <<"f", "i", "t", "s">>
x_fit == <<"f", "i", "t">>
x_vot == <<"v", "o", "t">>
x_csv == <<"c", "s", "v">>
x_xml == <<"x", "m", "l">>

\* PLOTTER_MAPPING.get(ext)
PLOTTER_MAPPING(ext) ==
    IF ext.none THEN None
    ELSE IF ext.ext = x_fits \/ ext.ext = x_fit THEN "FitsPlotter"
    ELSE IF ext.ext = x_vot \/ ext.ext = x_xml THEN "VotPlotter"
    ELSE IF ext.ext = x_csv THEN "CsvPlotter"
    ELSE None

\* plot_spectra lines 240-244: the plotter of a file name, or the error raised
detect_format(filename) ==
    LET ext == file_extension(filename)
    IN  IF ext.raised THEN [ok |-> FALSE, err |-> "InvalidName", plotter |-> None]
        ELSE IF PLOTTER_MAPPING(ext) = None
             THEN [ok |-> FALSE, err |-> "UnknownExtension", plotter |-> None]
        ELSE [ok |-> TRUE, err |-> None, plotter |-> PLOTTER_MAPPING(ext)]


\* ------------------------------------------------------------------------
\* FitsPlotter
\* ------------------------------------------------------------------------
\* A header is a function from its keywords to their values (hdu.header[k] raises
\* KeyError for a keyword outside its domain).  CRPIX1 is a rational <<n, d>>.
Has(header, key) == key \in DOMAIN header

\* int(x) of a rational x = <<n, d>>, d > 0: truncation towards zero
pyint(x) == IF x[1] >= 0 THEN x[1] \div x[2] ELSE -((-x[1]) \div x[2])

\* 10 ** e, kept as the power it is
Pow10(e) == [pow10 |-> e]

\* a faulty variant: the reference pixel is taken as 0-based
extract_wave_zero_based(hdu, flux) ==
    LET h == hdu.header
    IN  IF ~Has(h, "crpix1") \/ ~Has(h, "crval1") \/ (~Has(h, "cdelt1") /\ ~Has(h, "cd1_1"))
        THEN [ok |-> FALSE, err |-> "KeyError", wave |-> <<>>]
        ELSE LET pix == pyint(h["crpix1"])
                 first == h["crval1"]
                 delta == IF Has(h, "cdelt1") THEN h["cdelt1"] ELSE h["cd1_1"]
                 dc_flag == IF Has(h, "dc-flag") THEN h["dc-flag"] ELSE 0
             IN  [ok |-> TRUE, err |-> None,
                  wave |-> [k \in 1..Len(flux) |->
                              IF dc_flag = 0 THEN first + ((k - 1) - pix) * delta
                              ELSE Pow10(first + ((k - 1) - pix) * delta)]]

\* FitsPlotter._extract_wave(hdu, flux); list index i of the code is k - 1 here
extract_wave(hdu, flux) ==
    LET h == hdu.header
    IN  IF ~Has(h, "crpix1") \/ ~Has(h, "crval1") \/ (~Has(h, "cdelt1") /\ ~Has(h, "cd1_1"))
        THEN [ok |-> FALSE, err |-> "KeyError", wave |-> <<>>]
        ELSE LET pix == pyint(h["crpix1"])
                 first == h["crval1"]
                 delta == IF Has(h, "cdelt1") THEN h["cdelt1"] ELSE h["cd1_1"]
                 dc_flag == IF Has(h, "dc-flag") THEN h["dc-flag"] ELSE 0
             IN  [ok |-> TRUE, err |-> None,
                  wave |-> [k \in 1..Len(flux) |->
                              IF dc_flag = 0 THEN first + ((k - 1) - pix + 1) * delta
                              ELSE Pow10(first + ((k - 1) - pix + 1) * delta)]]

\* hdu.data is [kind |-> "none"], a 1-D array [kind |-> "array1", v], a 2-D array
\* [kind |-> "array2", rows], a table [kind |-> "table", names, cols] or some other
\* payload [kind |-> "cube"].
\* tbdata[column]: the column's values, or no value (KeyError)
Column(data, column) ==
    IF data.kind # "table" THEN <<>>
    ELSE LET at == {i \in 1..Len(data.names) : data.names[i] = column}
         IN  IF at = {} THEN <<>> ELSE <<data.cols[CHOOSE i \in at : TRUE]>>

\* hdu.data[0]
FirstRow(data) ==
    IF data.kind = "array2" THEN data.rows[1]
    ELSE IF data.kind = "table" THEN [i \in 1..Len(data.cols) |-> data.cols[i][1]]
    ELSE <<>>

\* the local variables name, wave, flux of _parse_spectrum_file: <<>> while unbound
Unbound == [raised |-> FALSE, err |-> None, name |-> <<>>, wave |-> <<>>, flux |-> <<>>]

Raise(st, err) == [st EXCEPT !.raised = TRUE, !.err = err]

\* header.get('object', header.get('desig'))
HeaderName(h) ==
    IF Has(h, "object") THEN h["object"] ELSE IF Has(h, "desig") THEN h["desig"] ELSE None

\* one iteration of the loop `for hdu in hdulist` (lines 78-101)
ParseHdu(st, hdu) ==
    IF st.raised \/ hdu.data.kind = "none" THEN st
    ELSE LET h == hdu.header
             named == [st EXCEPT !.name = <<HeaderName(h)>>]
             naxis2is5 == Has(h, "naxis2") /\ h["naxis2"] = 5
         IN  IF Has(h, "naxis") /\ h["naxis"] = 2 /\ naxis2is5
             THEN LET flux == FirstRow(hdu.data)
                      w == extract_wave(hdu, flux)
                  IN  IF w.ok THEN [named EXCEPT !.flux = <<flux>>, !.wave = <<w.wave>>]
                      ELSE Raise([named EXCEPT !.flux = <<flux>>], w.err)
             ELSE IF Has(h, "naxis") /\ h["naxis"] = 2
             THEN LET spectral == Column(hdu.data, "spectral")
                      wave == IF spectral # <<>> THEN spectral ELSE Column(hdu.data, "wave")
                      flux == Column(hdu.data, "flux")
                  IN  IF wave = <<>> THEN Raise(named, "KeyError")
                      ELSE IF flux = <<>> THEN Raise([named EXCEPT !.wave = wave], "KeyError")
                      ELSE [named EXCEPT !.wave = wave, !.flux = flux]
             ELSE IF Has(h, "naxis") /\ h["naxis"] = 1
             THEN LET flux == hdu.data.v
                      w == extract_wave(hdu, flux)
                  IN  IF w.ok THEN [named EXCEPT !.flux = <<flux>>, !.wave = <<w.wave>>]
                      ELSE Raise([named EXCEPT !.flux = <<flux>>], w.err)
             ELSE named

\* the loop over the whole list
RECURSIVE ParseHdus(_, _)
ParseHdus(st, hdulist) ==
    IF hdulist = <<>> THEN st ELSE ParseHdus(ParseHdu(st, Head(hdulist)), Tail(hdulist))

\* FitsPlotter._parse_spectrum_file: the loop, then the return statement, which
\* raises UnboundLocalError when a local was never assigned
fits_parse_spectrum_file(hdulist) ==
    LET st == ParseHdus(Unbound, hdulist)
    IN  IF st.raised THEN [ok |-> FALSE, err |-> st.err]
        ELSE IF st.name = <<>> \/ st.wave = <<>> \/ st.flux = <<>>
             THEN [ok |-> FALSE, err |-> "UnboundLocalError"]
        ELSE [ok |-> TRUE, err |-> None, name |-> st.name[1], hasWave |-> TRUE,
              wave |-> st.wave[1], flux |-> st.flux[1]]

\* ------------------------------------------------------------------------
\* VotPlotter
\* ------------------------------------------------------------------------
\* A votable document is [parses, names, cols, targname]: whether votable.parse
\* accepts it, the columns of its first table, and what looking up the field
\* ssa_targname gives: <<v>> for a field of value v, <<>> when the lookup result has
\* no attribute `value` (AttributeError)
vot_parse_spectrum_file(doc) ==
    IF ~doc.parses THEN [ok |-> FALSE, err |-> "ParseError"]
    ELSE LET table == [kind |-> "table", names |-> doc.names, cols |-> doc.cols]
             wave == Column(table, "spectral")
             flux == Column(table, "flux")
         IN  IF wave = <<>> \/ flux = <<>> THEN [ok |-> FALSE, err |-> "KeyError"]
             ELSE [ok |-> TRUE, err |-> None,
                   name |-> IF doc.targname = <<>> THEN None ELSE doc.targname[1],
                   hasWave |-> TRUE, wave |-> wave[1], flux |-> flux[1]]

\* a faulty variant: the exception of a failed read is not caught
extract_meta_file_raising(doc) ==
    IF doc.kind # "vot" \/ ~doc.parses THEN [some |-> FALSE, raised |-> TRUE]
    ELSE LET wave == Column([kind |-> "table", names |-> doc.names, cols |-> doc.cols],
                            "intensities")
         IN  IF wave = <<>> \/ wave[1] = <<>> THEN [some |-> FALSE, raised |-> TRUE]
             ELSE [some |-> TRUE, raised |-> FALSE, grid |-> wave[1][1]]

\* extract_meta_file: the first row of the field `intensities`, or None after
\* any exception (raised is never set: the function catches every exception)
extract_meta_file(doc) ==
    IF doc.kind # "vot" \/ ~doc.parses THEN [some |-> FALSE, raised |-> FALSE]
    ELSE LET wave == Column([kind |-> "table", names |-> doc.names, cols |-> doc.cols],
                            "intensities")
         IN  IF wave = <<>> \/ wave[1] = <<>> THEN [some |-> FALSE, raised |-> FALSE]
             ELSE [some |-> TRUE, raised |-> FALSE, grid |-> wave[1][1]]

\* ------------------------------------------------------------------------
\* The call of plot_spectra at rest (while a pure function is examined)
\* ------------------------------------------------------------------------
BatchIdle ==
    /\ pc = "idle"
    /\ caller = None
    /\ file_list = <<>>
    /\ location = None
    /\ idx = 0
    /\ row = 0
    /\ meta_wave = [some |-> FALSE, raised |-> FALSE]
    /\ spectra_files = <<>>
    /\ curves = <<>>
    /\ spectra_count = NoAttr
    /\ start_count = NoAttr
    /\ decoded = <<>>
    /\ error = None
    /\ http = 0

\* ------------------------------------------------------------------------
\* Location Resolver: resolve applied to every raw path over PathAlphabet
\* ------------------------------------------------------------------------
PathAlphabet == {"/", ".", "a"}
RawPaths == SeqsUpTo(PathAlphabet, MaxPathLen)

InitResolve ==
    /\ BatchIdle
    /\ fn_in \in [fn : {"resolve"}, loc : Locations \cup {"archive"}, raw : RawPaths]
    /\ fn_out = NotApplied

ApplyResolve ==
    /\ fn_in.fn = "resolve"
    /\ fn_out = NotApplied
    /\ fn_out' = [applied |-> TRUE, res |-> resolve(fn_in.loc, fn_in.raw)]
    /\ UNCHANGED <<fn_in, batchVars>>

SpecResolve == InitResolve /\ [][ApplyResolve]_vars

\* the configured root directory of a recognized location, from the configuration
RootOf(loc) == IF loc = "filesystem" THEN filesystem_path ELSE jobs_path

\* an absolute path lies inside root: it is root or continues it after a separator,
\* and no component of it is a parent-directory segment
InsideRoot(path, root) ==
    /\ path = root \/ StartsWith(path, root \o <<"/">>)
    /\ \A i \in 1..Len(Split(path, "/")) : Split(path, "/")[i] # <<".", ".">>

\* C3: for both location identifiers and every raw path, resolve either fails or
\* yields an absolute path inside the location's root directory; every raw path
\* that contains '..' fails with the invalid-path error and yields no request.
TraversalSafe ==
    (fn_in.fn = "resolve" /\ fn_out.applied /\ fn_in.loc \in Locations) =>
        /\ fn_out.res.ok => InsideRoot(fn_out.res.path, RootOf(fn_in.loc))
        /\ Contains(fn_in.raw, <<".", ".">>) =>
               (~fn_out.res.ok /\ fn_out.res.err = "InvalidPath")

\* a raw path with a leading separator was resolved to a file below the root
TraversalSafeWitness ==
    /\ fn_in.fn = "resolve" /\ fn_out.applied /\ fn_in.loc \in Locations
    /\ StartsWith(fn_in.raw, <<"/", "/", "a">>)
    /\ fn_out.res.ok
    /\ fn_out.res.path # RootOf(fn_in.loc)

\* ------------------------------------------------------------------------
\* Format Detector: detect_format applied to file names stem '.' suffix
\* ------------------------------------------------------------------------
Upper(c) ==
    CASE c = "f" -> "F" [] c = "i" -> "I" [] c = "t" -> "T" [] c = "s" -> "S"
      [] c = "c" -> "C" [] c = "v" -> "V" [] c = "o" -> "O" [] c = "x" -> "X"
      [] c = "m" -> "M" [] c = "l" -> "L" [] OTHER -> c

\* every spelling of s in upper and lower case letters
CaseVariants(s) == {t \in [1..Len(s) -> {"f", "i", "t", "s", "c", "v", "o", "x", "m", "l",
                                          "F", "I", "T", "S", "C", "V", "O", "X", "M", "L"}] :
                        \A i \in 1..Len(s) : t[i] \in {s[i], Upper(s[i])}}

RecognizedSuffixes == {x_fits, x_fit, x_vot, x_xml, x_csv}

Suffixes ==
    UNION {CaseVariants(s) : s \in RecognizedSuffixes}
        \cup {<<>>, <<" ">>, <<"t", "x", "t">>, <<"c", "s", "v", " ">>, <<"f", "i">>}

Stems == {<<>>, <<"a">>, <<"a", ".", "b">>, <<"c", "s", "v">>}

InitDetect ==
    /\ BatchIdle
    /\ fn_in \in [fn : {"detect"}, dotted : {TRUE}, stem : Stems, suffix : Suffixes]
                    \cup [fn : {"detect"}, dotted : {FALSE}, stem : Stems, suffix : {<<>>}]
    /\ fn_out = NotApplied

\* the file name the input stands for
NameOf(in) == IF in.dotted THEN in.stem \o <<".">> \o in.suffix ELSE in.stem

ApplyDetect ==
    /\ fn_in.fn = "detect"
    /\ fn_out = NotApplied
    /\ fn_out' = [applied |-> TRUE, res |-> detect_format(NameOf(fn_in))]
    /\ UNCHANGED <<fn_in, batchVars>>

SpecDetect == InitDetect /\ [][ApplyDetect]_vars

\* the decoder the specification assigns to a suffix
DecoderOf(s) ==
    IF s \in {x_fits, x_fit} THEN "FitsPlotter"
    ELSE IF s \in {x_vot, x_xml} THEN "VotPlotter"
    ELSE "CsvPlotter"

\* C4 as stated: a recognized suffix in any letter case is dispatched to the
\* decoder of its lower-case form and does not fail as an unknown format.
DetectIgnoresCase ==
    (fn_in.fn = "detect" /\ fn_out.applied /\ fn_in.dotted
        /\ LowerSeq(fn_in.suffix) \in RecognizedSuffixes) =>
        /\ fn_out.res.ok
        /\ fn_out.res.plotter = DecoderOf(LowerSeq(fn_in.suffix))

\* C4 amended: the suffix after the last '.' is used as written (surrounding
\* white space stripped, letter case unchanged): a file name is dispatched to
\* a decoder exactly when that suffix is one of fits, fit, vot, xml, csv in
\* lower case, and any other spelling fails as an unknown format.
DetectKeepsCase ==
    (fn_in.fn = "detect" /\ fn_out.applied /\ fn_in.dotted) =>
        LET s == Strip(fn_in.suffix)
        IN  /\ s \in RecognizedSuffixes =>
                (fn_out.res.ok /\ fn_out.res.plotter = DecoderOf(s))
            /\ s \notin RecognizedSuffixes =>
                (~fn_out.res.ok /\ fn_out.res.err = "UnknownExtension")

\* 'a.FITS' was examined and refused as an unknown format
DetectKeepsCaseWitness ==
    /\ fn_in.fn = "detect" /\ fn_out.applied /\ fn_in.dotted
    /\ fn_in.stem = <<"a">>
    /\ fn_in.suffix = <<"F", "I", "T", "S">>
    /\ ~fn_out.res.ok /\ fn_out.res.err = "UnknownExtension"

\* ------------------------------------------------------------------------
\* Wavelength Reconstructor: extract_wave applied to headers and flux series
\* ------------------------------------------------------------------------
\* a keyword that is absent (<<>>) or present with value o[1]
Opt(key, o) == IF o = <<>> THEN <<>> ELSE (key :> o[1])

FluxOfLen(n) == [k \in 1..n |-> 10 * k]

InitWave ==
    /\ BatchIdle
    /\ \E crpix1 \in {<<>>, <<<<1, 1>>>>, <<<<2, 1>>>>, <<<<-1, 1>>>>, <<<<3, 2>>>>},
          crval1 \in {<<>>, <<0>>, <<4000>>},
          cdelt1 \in {<<>>, <<2>>, <<-1>>},
          cd1_1 \in {<<>>, <<3>>},
          dcflag \in {<<>>, <<0>>, <<1>>},
          n \in 0..MaxFluxLen :
        fn_in = [fn |-> "wave",
                 header |-> Opt("crpix1", crpix1) @@ Opt("crval1", crval1)
                              @@ Opt("cdelt1", cdelt1) @@ Opt("cd1_1", cd1_1)
                              @@ Opt("dc-flag", dcflag),
                 flux |-> FluxOfLen(n)]
    /\ fn_out = NotApplied

ApplyWave ==
    /\ fn_in.fn = "wave"
    /\ fn_out = NotApplied
    /\ fn_out' = [applied |-> TRUE, res |-> extract_wave([header |-> fn_in.header], fn_in.flux)]
    /\ UNCHANGED <<fn_in, batchVars>>

SpecWave == InitWave /\ [][ApplyWave]_vars

\* the header carries what the reconstruction needs, with an integer reference pixel
Reconstructible(h) ==
    /\ Has(h, "crpix1") /\ h["crpix1"][2] = 1
    /\ Has(h, "crval1")
    /\ Has(h, "cdelt1") \/ Has(h, "cd1_1")

\* C9: for reference pixel p, reference value c0, increment d (cdelt1 if present,
\* else cd1_1) and a flux series of length N, the wavelength has length N and
\* wavelength[i] = c0 + (i - p + 1) * d for i in [0, N) when dc-flag is absent or 0,
\* wavelength[i] = 10 ^ (c0 + (i - p + 1) * d) when dc-flag is 1; with p = 1,
\* c0 = 4000, d = 2 and dc-flag absent, wavelength[i] = 4000 + 2 * i.
WaveReconstruction ==
    (fn_in.fn = "wave" /\ fn_out.applied /\ Reconstructible(fn_in.header)) =>
        LET h == fn_in.header
            N == Len(fn_in.flux)
            p == h["crpix1"][1]
            c0 == h["crval1"]
            d == IF Has(h, "cdelt1") THEN h["cdelt1"] ELSE h["cd1_1"]
            wavelength == fn_out.res.wave
        IN  /\ fn_out.res.ok
            /\ Len(wavelength) = N
            /\ (~Has(h, "dc-flag") \/ h["dc-flag"] = 0) =>
                   \A i \in 0..(N - 1) : wavelength[i + 1] = c0 + (i - p + 1) * d
            /\ (Has(h, "dc-flag") /\ h["dc-flag"] = 1) =>
                   \A i \in 0..(N - 1) : wavelength[i + 1] = [pow10 |-> c0 + (i - p + 1) * d]
            /\ (p = 1 /\ c0 = 4000 /\ d = 2 /\ ~Has(h, "dc-flag")) =>
                   \A i \in 0..(N - 1) : wavelength[i + 1] = 4000 + 2 * i

\* a logarithmic reconstruction from cd1_1 (no cdelt1) of at least two samples
WaveReconstructionWitness ==
    /\ fn_in.fn = "wave" /\ fn_out.applied /\ Reconstructible(fn_in.header)
    /\ ~Has(fn_in.header, "cdelt1")
    /\ Has(fn_in.header, "dc-flag") /\ fn_in.header["dc-flag"] = 1
    /\ fn_in.header["crpix1"] = <<2, 1>>
    /\ Len(fn_in.flux) >= 2
    /\ fn_out.res.ok /\ Len(fn_out.res.wave) = Len(fn_in.flux)

\* ------------------------------------------------------------------------
\* Tabular-binary decoder: fits_parse_spectrum_file applied to lists of blocks
\* ------------------------------------------------------------------------
ImageHeader(naxis, name) ==
    ("naxis" :> naxis) @@ ("crpix1" :> <<1, 1>>) @@ ("crval1" :> 4000) @@ ("cdelt1" :> 2)
        @@ Opt("object", name)

\* an empty primary block
HduEmpty == [data |-> [kind |-> "none"], header |-> ("naxis" :> 0) @@ ("object" :> "P")]
\* a 1-D flux series named by `object`
HduSeries == [data |-> [kind |-> "array1", v |-> <<5, 6>>], header |-> ImageHeader(1, <<"A">>)]
\* a table of two rows named by `desig` only
HduTable ==
    [data |-> [kind |-> "table", names |-> <<"spectral", "flux">>,
               cols |-> << <<1, 2>>, <<7, 8>> >>],
     header |-> ("naxis" :> 2) @@ ("naxis2" :> 2) @@ ("desig" :> "B")]
\* a data cube: no branch of the decoder applies to it
HduCube == [data |-> [kind |-> "cube"], header |-> ("naxis" :> 3) @@ ("object" :> "C")]
\* a 5-row image without a name, sampled logarithmically
HduFiveRows ==
    [data |-> [kind |-> "array2", rows |-> << <<9, 9>>, <<0, 0>>, <<0, 0>>, <<0, 0>>, <<0, 0>> >>],
     header |-> ImageHeader(2, <<>>) @@ ("naxis2" :> 5) @@ ("dc-flag" :> 1)]
\* a 1-D flux series whose header lacks the sampling parameters
HduNoSampling == [data |-> [kind |-> "array1", v |-> <<3>>],
                  header |-> ("naxis" :> 1) @@ ("object" :> "D")]

Hdus == {HduEmpty, HduSeries, HduTable, HduCube, HduFiveRows, HduNoSampling}

InitFits ==
    /\ BatchIdle
    /\ fn_in \in [fn : {"fits"}, hdulist : SeqsUpTo(Hdus, MaxBlocks)]
    /\ fn_out = NotApplied

ApplyFits ==
    /\ fn_in.fn = "fits"
    /\ fn_out = NotApplied
    /\ fn_out' = [applied |-> TRUE, res |-> fits_parse_spectrum_file(fn_in.hdulist)]
    /\ UNCHANGED <<fn_in, batchVars>>

SpecFits == InitFits /\ [][ApplyFits]_vars

\* the blocks of a list whose data payload is non-null
WithData(hdulist) == {i \in 1..Len(hdulist) : hdulist[i].data.kind # "none"}

\* C2: the decoded name, wavelength and flux all come from the first block whose
\* data payload is non-null: when that block decodes by itself, the file decodes
\* to what it gives, whatever blocks follow it.
FirstMatchWins ==
    (fn_in.fn = "fits" /\ fn_out.applied /\ WithData(fn_in.hdulist) # {}) =>
        LET first == CHOOSE i \in WithData(fn_in.hdulist) :
                         \A j \in WithData(fn_in.hdulist) : i <= j
            alone == fits_parse_spectrum_file(<<fn_in.hdulist[first]>>)
        IN  (alone.ok /\ fn_out.res.ok) => fn_out.res = alone

\* ------------------------------------------------------------------------
\* The files below the two root directories
\* ------------------------------------------------------------------------
n_a_csv == <<"a", ".", "c", "s", "v">>
n_b_fits == <<"b", ".", "f", "i", "t", "s">>
n_c_vot == <<"c", ".", "v", "o", "t">>
n_meta_xml == <<"m", "e", "t", "a", ".", "x", "m", "l">>
n_x_FITS == <<"x", ".", "F", "I", "T", "S">>
n_d_e_csv == <<"d", "/", "e", ".", "c", "s", "v">>
n_d_meta_xml == <<"d", "/">> \o n_meta_xml

Missing == [kind |-> "missing"]

CsvFile(named, rows) == [kind |-> "csv", named |-> named, rows |-> rows]
FitsFile(hdulist) == [kind |-> "fits", hdulist |-> hdulist]
VotFile(parses, names, cols, targname) ==
    [kind |-> "vot", parses |-> parses, names |-> names, cols |-> cols, targname |-> targname]

MetaGrid == <<100, 200>>

\* the files of options.filesystem_path, by path relative to it
FilesystemFile(rel) ==
    CASE rel = n_a_csv -> CsvFile(FALSE, << [name |-> None, flux |-> <<1, 2>>],
                                            [name |-> None, flux |-> <<3, 4>>] >>)
      [] rel = n_b_fits -> FitsFile(<<HduEmpty, HduSeries>>)
      [] rel = n_c_vot -> VotFile(TRUE, <<"spectral", "flux">>, << <<1, 2>>, <<7, 8>> >>, <<"T">>)
      [] rel = n_meta_xml -> VotFile(TRUE, <<"intensities">>, << <<MetaGrid>> >>, <<>>)
      [] rel = n_x_FITS -> FitsFile(<<HduSeries>>)
      [] rel = n_d_e_csv -> CsvFile(TRUE, << [name |-> "r1", flux |-> <<5, 6>>],
                                             [name |-> "r2", flux |-> <<7>>] >>)
      [] rel = n_d_meta_xml -> VotFile(TRUE, <<"spectral", "flux">>, << <<1>>, <<2>> >>, <<>>)
      [] OTHER -> Missing

\* the files of options.jobs_path, by path relative to it
JobsFile(rel) ==
    CASE rel = n_a_csv -> CsvFile(FALSE, << [name |-> None, flux |-> <<1, 2, 3>>] >>)
      [] rel = n_b_fits -> FitsFile(<<HduEmpty>>)
      [] rel = n_meta_xml -> VotFile(FALSE, <<>>, <<>>, <<>>)
      [] rel = n_d_e_csv -> CsvFile(TRUE, << [name |-> "r1", flux |-> <<5, 6>>] >>)
      [] OTHER -> Missing

\* the content of the file at an absolute path; os.path.isfile is kind # "missing"
FileAt(path) ==
    IF StartsWith(path, filesystem_path \o <<"/">>)
    THEN FilesystemFile(SubSeq(path, Len(filesystem_path) + 2, Len(path)))
    ELSE IF StartsWith(path, jobs_path \o <<"/">>)
    THEN JobsFile(SubSeq(path, Len(jobs_path) + 2, Len(path)))
    ELSE Missing

isfile(path) == FileAt(path).kind # "missing"

\* ------------------------------------------------------------------------
\* The plot target: axes.plot and axes.spectra_count
\* ------------------------------------------------------------------------
Index == [kind |-> "index", v |-> <<>>]
Values(v) == [kind |-> "values", v |-> v]

\* axes.plot(x, y, label) refuses x and y of different lengths
PlotAccepts(x, y) == x.kind = "index" \/ Len(x.v) = Len(y)

\* a faulty variant: the target is cleared before each curve
axes_plot_cleared(lines, curve) == <<curve>>

\* axes.plot: the curve is added after the ones already there
axes_plot(lines, curve) == Append(lines, curve)

\* a faulty variant: the count is left as it is
count_unchanged(count) == count

\* axes.spectra_count += 1
count_incremented(count) == <<count[1] + 1>>

\* a faulty variant: the grid of the meta file is ignored
csv_x_index(meta) == Index

\* CsvPlotter.plot lines 138-141: the x axis of a row
csv_x(meta) == IF meta.some THEN Values(meta.grid) ELSE Index

\* CsvPlotter.plot lines 131-137: the label of row number r (0-based counter)
csv_label(file_name, named, r, rec) ==
    IF named THEN [file |-> <<>>, name |-> rec.name, n |-> -1]
    ELSE [file |-> file_name, name |-> None, n |-> r]

\* AbstractPlotter.plot lines 19-25: the curve of a parsed spectrum
abstract_curve(file_name, file_path, parsed) ==
    [label |-> [file |-> file_name, name |-> parsed.name, n |-> -1],
     x |-> IF parsed.hasWave THEN Values(parsed.wave) ELSE Index,
     y |-> parsed.flux,
     src |-> [name |-> file_name, path |-> file_path, row |-> 0]]

\* subclass dispatch of _parse_spectrum_file on the content of the file
parse_spectrum_file(plotter, content) ==
    IF plotter = "FitsPlotter"
    THEN IF content.kind = "fits" THEN fits_parse_spectrum_file(content.hdulist)
         ELSE [ok |-> FALSE, err |-> "ParseError"]
    ELSE IF content.kind = "vot" THEN vot_parse_spectrum_file(content)
         ELSE [ok |-> FALSE, err |-> "ParseError"]

\* ------------------------------------------------------------------------
\* plot_spectra and its callers
\* ------------------------------------------------------------------------
BatchPaths == {n_a_csv, n_b_fits, n_c_vot, n_meta_xml, n_x_FITS, n_d_e_csv, n_d_meta_xml,
               <<"/">> \o n_d_e_csv, <<".", ".", "/">> \o n_a_csv}

\* number of positional parameters of plot_spectra, and of arguments at its call
\* sites in SpectraViewHandler.get and PngSpectrumPlotHandler.get
plot_spectra_params == 3
view_call_args == 4
png_call_args == 3

\* plot_spectra lines 232-235, faulty variant: the meta file stays a candidate
classify_keep_meta(f, meta, files) ==
    IF f.name = n_meta_xml
    THEN [meta |-> extract_meta_file(FileAt(f.path)), files |-> Append(files, f)]
    ELSE [meta |-> meta, files |-> Append(files, f)]

\* plot_spectra lines 232-235: the meta file is consumed, any other is a candidate
classify(f, meta, files) ==
    IF f.name = n_meta_xml
    THEN [meta |-> extract_meta_file(FileAt(f.path)), files |-> files]
    ELSE [meta |-> meta, files |-> Append(files, f)]

Raised(kind) ==
    /\ pc' = "raised"
    /\ error' = kind

\* the call arrives with as many arguments as plot_spectra has parameters, or
\* Python raises TypeError before the body runs
Invoke(nargs) ==
    IF nargs = plot_spectra_params THEN pc' = "entry" /\ error' = None
    ELSE Raised("TypeError")

\* plot_spectra called on a target that carries a curve count
ApiCall ==
    /\ pc = "idle"
    /\ \E fl \in SeqsUpTo(BatchPaths, MaxFiles), loc \in Locations \cup {"archive"},
          n \in {0, 1} :
        /\ caller' = "api"
        /\ file_list' = fl
        /\ location' = loc
        /\ spectra_count' = <<n>>
        /\ start_count' = <<n>>
    /\ Invoke(plot_spectra_params)
    /\ UNCHANGED <<idx, row, meta_wave, spectra_files, curves, decoded, http, fnVars>>

\* SpectraViewHandler.get, up to the call of plot_spectra (spectra_list is the
\* list of the non-empty trimmed items of the query parameter)
ViewGet ==
    /\ pc = "idle"
    /\ \E fl \in SeqsUpTo(BatchPaths, MaxFiles), loc \in Locations \cup {"archive"} :
        /\ caller' = "view"
        /\ file_list' = fl
        /\ location' = loc
        /\ IF Len(fl) = 0 \/ loc \notin Locations
           THEN /\ pc' = "answered"
                /\ http' = 400
                /\ UNCHANGED <<spectra_count, start_count, error>>
           ELSE /\ spectra_count' = <<0>>
                /\ start_count' = <<0>>
                /\ Invoke(view_call_args)
                /\ UNCHANGED http
    /\ UNCHANGED <<idx, row, meta_wave, spectra_files, curves, decoded, fnVars>>

\* PngSpectrumPlotHandler.get, up to the call of plot_spectra
PngGet ==
    /\ pc = "idle"
    /\ \E arg \in BatchPaths \cup {<<>>}, loc \in Locations \cup {"archive"} :
        /\ caller' = "png"
        /\ file_list' = <<arg>>
        /\ location' = loc
        /\ IF arg = <<>> \/ loc \notin Locations
           THEN /\ pc' = "answered"
                /\ http' = 400
                /\ UNCHANGED error
           ELSE /\ Invoke(png_call_args)
                /\ UNCHANGED http
    /\ UNCHANGED <<idx, row, meta_wave, spectra_files, curves, spectra_count, start_count,
                   decoded, fnVars>>

\* plot_spectra lines 215-227
Enter ==
    /\ pc = "entry"
    /\ IF Len(file_list) = 0 THEN Raised("EmptyBatch") /\ UNCHANGED idx
       ELSE IF location \notin Locations THEN Raised("UnknownLocation") /\ UNCHANGED idx
       ELSE pc' = "resolve" /\ idx' = 1 /\ UNCHANGED error
    /\ meta_wave' = [some |-> FALSE, raised |-> FALSE]
    /\ spectra_files' = <<>>
    /\ UNCHANGED <<caller, file_list, location, row, curves, spectra_count, start_count,
                   decoded, http, fnVars>>

\* one iteration of the loop of lines 228-235 (the lazy map of line 225 runs
\* path_mapper on the entry as the loop reaches it)
ResolveFile ==
    /\ pc = "resolve"
    /\ idx <= Len(file_list)
    /\ LET f == path_mapper(location_prefix(location), file_list[idx])
       IN  IF ~f.ok
           THEN Raised(f.err) /\ UNCHANGED <<meta_wave, spectra_files, idx>>
           ELSE IF ~isfile(f.path)
           THEN Raised("FileNotFound") /\ UNCHANGED <<meta_wave, spectra_files, idx>>
           ELSE LET c == classify([name |-> f.name, path |-> f.path], meta_wave,
                                  spectra_files)
                IN  IF c.meta.raised
                    THEN Raised("MetaError") /\ UNCHANGED <<meta_wave, spectra_files, idx>>
                    ELSE /\ meta_wave' = c.meta
                         /\ spectra_files' = c.files
                         /\ idx' = idx + 1
                         /\ UNCHANGED <<pc, error>>
    /\ UNCHANGED <<caller, file_list, location, row, curves, spectra_count, start_count,
                   decoded, http, fnVars>>

\* plot_spectra lines 236-237
CheckCandidates ==
    /\ pc = "resolve"
    /\ idx > Len(file_list)
    /\ IF Len(spectra_files) = 0 THEN Raised("EmptyBatch") /\ UNCHANGED idx
       ELSE pc' = "plot" /\ idx' = 1 /\ UNCHANGED error
    /\ UNCHANGED <<caller, file_list, location, row, meta_wave, spectra_files, curves,
                   spectra_count, start_count, decoded, http, fnVars>>

\* axes.plot(...) followed by axes.spectra_count += 1, which raises AttributeError
\* on a target that has no spectra_count
AddCurve(curve) ==
    /\ curves' = axes_plot(curves, curve)
    /\ IF spectra_count = NoAttr
       THEN Raised("AttributeError") /\ UNCHANGED spectra_count
       ELSE spectra_count' = count_incremented(spectra_count) /\ UNCHANGED <<pc, error>>

\* one iteration of the loop of lines 238-246, for a file of AbstractPlotter or
\* up to the opening of the file by CsvPlotter.plot
PlotFile ==
    /\ pc = "plot"
    /\ idx <= Len(spectra_files)
    /\ LET f == spectra_files[idx]
           d == detect_format(f.name)
       IN  IF ~d.ok
           THEN /\ Raised(d.err)
                /\ UNCHANGED <<idx, row, curves, spectra_count, decoded>>
           ELSE IF d.plotter = "CsvPlotter"
           THEN /\ pc' = "csv"
                /\ row' = 0
                /\ decoded' = Append(decoded, f.name)
                /\ UNCHANGED <<idx, curves, spectra_count, error>>
           ELSE LET parsed == parse_spectrum_file(d.plotter, FileAt(f.path))
                IN  /\ decoded' = Append(decoded, f.name)
                    /\ IF ~parsed.ok
                       THEN /\ Raised(parsed.err)
                            /\ UNCHANGED <<idx, row, curves, spectra_count>>
                       ELSE /\ AddCurve(abstract_curve(f.name, f.path, parsed))
                            /\ idx' = IF spectra_count = NoAttr THEN idx ELSE idx + 1
                            /\ UNCHANGED row
    /\ UNCHANGED <<caller, file_list, location, meta_wave, spectra_files, start_count,
                   http, fnVars>>

\* CsvPlotter.plot, one iteration of the loop of lines 130-142
CsvRow ==
    /\ pc = "csv"
    /\ LET f == spectra_files[idx]
           content == FileAt(f.path)
       IN  /\ row < Len(content.rows)
           /\ LET rec == content.rows[row + 1]
                  x == csv_x(meta_wave)
              IN  IF ~PlotAccepts(x, rec.flux)
                  THEN Raised("ValueError") /\ UNCHANGED <<row, curves, spectra_count>>
                  ELSE /\ AddCurve([label |-> csv_label(f.name, content.named, row, rec),
                                    x |-> x, y |-> rec.flux,
                                    src |-> [name |-> f.name, path |-> f.path,
                                             row |-> row + 1]])
                       /\ row' = IF spectra_count = NoAttr THEN row ELSE row + 1
    /\ UNCHANGED <<caller, file_list, location, idx, meta_wave, spectra_files, start_count,
                   decoded, http, fnVars>>

\* CsvPlotter.plot returns after the last row
CsvEnd ==
    /\ pc = "csv"
    /\ row = Len(FileAt(spectra_files[idx].path).rows)
    /\ pc' = "plot"
    /\ idx' = idx + 1
    /\ UNCHANGED <<caller, file_list, location, row, meta_wave, spectra_files, curves,
                   spectra_count, start_count, decoded, error, http, fnVars>>

\* plot_spectra line 247
Return ==
    /\ pc = "plot"
    /\ idx > Len(spectra_files)
    /\ pc' = "returned"
    /\ UNCHANGED <<caller, file_list, location, idx, row, meta_wave, spectra_files, curves,
                   spectra_count, start_count, decoded, error, http, fnVars>>

\* both handlers: any exception of plot_spectra becomes HTTPError(400); otherwise
\* the page or the image is written
Answer ==
    /\ pc \in {"returned", "raised"}
    /\ caller \in {"view", "png"}
    /\ pc' = "answered"
    /\ http' = IF pc = "raised" THEN 400 ELSE 200
    /\ UNCHANGED <<caller, file_list, location, idx, row, meta_wave, spectra_files, curves,
                   spectra_count, start_count, decoded, error, fnVars>>

Init ==
    /\ pc = "idle"
    /\ caller = None
    /\ file_list = <<>>
    /\ location = None
    /\ idx = 0
    /\ row = 0
    /\ meta_wave = [some |-> FALSE, raised |-> FALSE]
    /\ spectra_files = <<>>
    /\ curves = <<>>
    /\ spectra_count = NoAttr
    /\ start_count = NoAttr
    /\ decoded = <<>>
    /\ error = None
    /\ http = 0
    /\ fn_in = [fn |-> None]
    /\ fn_out = NotApplied

Next ==
    \/ ApiCall
    \/ ViewGet
    \/ PngGet
    \/ Enter
    \/ ResolveFile
    \/ CheckCandidates
    \/ PlotFile
    \/ CsvRow
    \/ CsvEnd
    \/ Return
    \/ Answer

Spec == Init /\ [][Next]_vars

\* ------------------------------------------------------------------------
\* Properties of plot_spectra
\* ------------------------------------------------------------------------
\* plot_spectra was entered with its three arguments and has not been left yet,
\* or has been left
Entered == pc \in {"resolve", "plot", "csv", "returned", "raised"} /\ error # "TypeError"

\* resolve, tabulated over the recognized locations and the raw paths of a batch
ResolveTable ==
    [loc \in Locations |-> [raw \in BatchPaths \cup {<<>>} |-> resolve(loc, raw)]]

\* the entries of the batch, resolved (defined when the location is recognized)
Resolved(i) == ResolveTable[location][file_list[i]]
AllResolve ==
    /\ location \in Locations
    /\ \A i \in 1..Len(file_list) : Resolved(i).ok /\ isfile(Resolved(i).path)
MetaEntries == {i \in 1..Len(file_list) : Resolved(i).name = n_meta_xml}

\* the candidates of the batch: its entries other than meta.xml, in list order
RECURSIVE CandidatesFrom(_)
CandidatesFrom(i) ==
    IF i > Len(file_list) THEN <<>>
    ELSE IF Resolved(i).name = n_meta_xml THEN CandidatesFrom(i + 1)
    ELSE <<[name |-> Resolved(i).name, path |-> Resolved(i).path]>> \o CandidatesFrom(i + 1)
Candidates == CandidatesFrom(1)

\* where the curves of one file come from: its rows in row order for a
\* delimited-text file, the file itself (row 0) for any other
SourcesOf(f) ==
    LET content == FileAt(f.path)
    IN  IF content.kind = "csv"
        THEN [r \in 1..Len(content.rows) |-> [name |-> f.name, path |-> f.path, row |-> r]]
        ELSE <<[name |-> f.name, path |-> f.path, row |-> 0]>>

RECURSIVE SourcesOfAll(_)
SourcesOfAll(files) ==
    IF files = <<>> THEN <<>> ELSE SourcesOf(Head(files)) \o SourcesOfAll(Tail(files))

CurveSources == [i \in 1..Len(curves) |-> curves[i].src]

IsPrefix(a, b) == Len(a) <= Len(b) /\ SubSeq(b, 1, Len(a)) = a

\* the grid a meta file holds: <<g>>, or <<>> when it is malformed or has no
\* field `intensities`
GridOf(content) ==
    IF content.kind # "vot" \/ ~content.parses THEN <<>>
    ELSE IF \A i \in 1..Len(content.names) : content.names[i] # "intensities" THEN <<>>
    ELSE LET i == CHOOSE j \in 1..Len(content.names) : content.names[j] = "intensities"
         IN  IF Len(content.cols[i]) = 0 THEN <<>> ELSE <<content.cols[i][1]>>

\* the batch holds exactly one meta.xml entry
OneMeta == AllResolve /\ Cardinality(MetaEntries) = 1
TheMeta == FileAt(Resolved(CHOOSE i \in MetaEntries : TRUE).path)

FromCsv(c) == FileAt(c.src.path).kind = "csv"

ValidationErrors == {"EmptyBatch", "UnknownLocation", "InvalidPath", "FileNotFound"}

\* C1 as stated: whenever plot_spectra fails, the curve list and the curve count of
\* the target are what they were before the call.
AllOrNothing ==
    (caller = "api" /\ pc = "raised") => (curves = <<>> /\ spectra_count = start_count)

\* C1 amended: plot_spectra stops at the first failure without restoring the
\* target. A failure of validation (empty list, unknown location, invalid path,
\* missing file, no candidate left) leaves the target as it was; when a candidate
\* fails format detection or decoding, the curves of the candidates before it are
\* in the target, in order, and no curve of a later candidate is.
FailFastNoRollback ==
    (Entered /\ pc = "raised") =>
        /\ error \in ValidationErrors => (curves = <<>> /\ spectra_count = start_count)
        /\ error \notin ValidationErrors =>
              /\ IsPrefix(SourcesOfAll(SubSeq(Candidates, 1, idx - 1)), CurveSources)
              /\ IsPrefix(CurveSources, SourcesOfAll(SubSeq(Candidates, 1, idx)))

\* the batch a.csv, x.FITS failed on the second file with both rows of the first
\* one in the target
FailFastNoRollbackWitness ==
    /\ caller = "api" /\ pc = "raised" /\ error = "UnknownExtension"
    /\ location = "filesystem"
    /\ file_list = <<n_a_csv, n_x_FITS>>
    /\ Len(curves) = 2
    /\ start_count = <<0>> /\ spectra_count = <<2>>

\* C5: in a batch with one meta.xml entry that yields a grid, every row of every
\* delimited-text file is plotted against that grid, wherever meta.xml stands in
\* the list, and the curves of the other files keep their own wavelengths.
MetaWaveAnyPosition ==
    (Entered /\ OneMeta /\ GridOf(TheMeta) # <<>>) =>
        /\ \A i \in 1..Len(curves) :
              IF FromCsv(curves[i]) THEN curves[i].x = Values(GridOf(TheMeta)[1])
              ELSE /\ curves[i].x.kind = "values"
                   /\ curves[i].x.v # GridOf(TheMeta)[1]
                   /\ Len(curves[i].x.v) = Len(curves[i].y)
        /\ pc = "returned" => CurveSources = SourcesOfAll(Candidates)

\* a.csv, b.fits, meta.xml: the meta file comes last and the rows of a.csv, plotted
\* before b.fits, lie on its grid
MetaWaveAnyPositionWitness ==
    /\ pc = "returned" /\ location = "filesystem"
    /\ file_list = <<n_a_csv, n_b_fits, n_meta_xml>>
    /\ Len(curves) = 3
    /\ curves[1].x = Values(MetaGrid) /\ curves[2].x = Values(MetaGrid)
    /\ curves[3].x = Values(<<4000, 4002>>)

\* C6: an entry named meta.xml is never handed to a decoder and never adds a
\* curve; a batch of existing files that are all named meta.xml fails as an empty
\* batch, whether or not the meta file parses.
MetaNeverDecoded ==
    /\ \A i \in 1..Len(decoded) : decoded[i] # n_meta_xml
    /\ \A i \in 1..Len(curves) : curves[i].src.name # n_meta_xml
    /\ (Entered /\ AllResolve /\ file_list # <<>>
            /\ MetaEntries = 1..Len(file_list)) =>
          /\ pc \in {"resolve", "raised"}
          /\ pc = "raised" => error = "EmptyBatch"

\* a batch of two meta files, one of which has no grid, failed as empty
MetaNeverDecodedWitness ==
    /\ pc = "raised" /\ error = "EmptyBatch" /\ location = "filesystem"
    /\ file_list = <<n_meta_xml, n_d_meta_xml>>
    /\ curves = <<>> /\ decoded = <<>>

\* C7: when the one meta.xml entry of a batch exists but cannot be parsed or has no
\* field `intensities`, plot_spectra does not fail for that reason: it goes on
\* without a meta wave and every delimited-text row is plotted against its index.
MetaFailureAbsorbed ==
    (Entered /\ OneMeta /\ GridOf(TheMeta) = <<>>) =>
        /\ error # "MetaError"
        /\ ~meta_wave.some
        /\ \A i \in 1..Len(curves) : FromCsv(curves[i]) => curves[i].x = Index
        /\ pc = "returned" => CurveSources = SourcesOfAll(Candidates)

\* the unparsable meta.xml of the jobs directory, before a.csv: the row is plotted
\* against its index
MetaFailureAbsorbedWitness ==
    /\ pc = "returned" /\ location = "jobs"
    /\ file_list = <<n_meta_xml, n_a_csv>>
    /\ Len(curves) = 1 /\ curves[1].x = Index

\* C8: throughout plot_spectra the curve count is its value at the start plus the
\* number of curves added so far, and after a successful call the curves are in
\* the order of their files in the list, the rows of one file in row order.
CurveCountAndOrder ==
    /\ (Entered /\ start_count # NoAttr) =>
          spectra_count = <<start_count[1] + Len(curves)>>
    /\ (pc = "returned" \/ (pc = "answered" /\ http = 200)) =>
          CurveSources = SourcesOfAll(Candidates)

\* two rows of a.csv, then b.fits, then c.vot, on a target that started at 1
CurveCountAndOrderWitness ==
    /\ pc = "returned" /\ location = "filesystem"
    /\ file_list = <<n_a_csv, n_b_fits, n_c_vot>>
    /\ start_count = <<1>> /\ spectra_count = <<5>>
    /\ Len(curves) = 4
    /\ curves[2].src.row = 2 /\ curves[3].src.name = n_b_fits

\* an entry of the batch is an existing spectrum file that its decoder accepts
Decodable(i) ==
    /\ Resolved(i).ok /\ isfile(Resolved(i).path) /\ Resolved(i).name # n_meta_xml
    /\ LET d == detect_format(Resolved(i).name)
       IN  /\ d.ok
           /\ d.plotter # "CsvPlotter" =>
                  parse_spectrum_file(d.plotter, FileAt(Resolved(i).path)).ok

\* C10: for a request with a recognized location and a non-empty list of existing,
\* decodable spectrum files, the view handler and the PNG handler complete the
\* call of plot_spectra without an error and do not answer with HTTP 400.
HandlersPlot ==
    (caller \in {"view", "png"} /\ pc = "answered" /\ location \in Locations
        /\ file_list # <<>> /\ \A i \in 1..Len(file_list) : Decodable(i)) =>
        (error = None /\ http # 400)

====
